---- MODULE Spec2Model ----
(***************************************************************************)
(* Model of the reflux engine of src/src/reflux.ts: the global state, the  *)
(* state stream with its selector subscriptions, the action identity       *)
(* table, the handler registry, and Action.dispatch with its rxjs pipeline *)
(* (from -> flatMap -> map -> skipWhile -> map -> catch -> share).         *)
(*                                                                         *)
(* A handler is an arbitrary function returning an Observable; the model   *)
(* lets every invoked handler either throw (or return a non-Observable),   *)
(* deliver one result before it returns (synchronously), or deliver one    *)
(* result later (asynchronously).  A result is a partial state to merge, a *)
(* ReplaceableState, undefined, or an error.  The state a ReplaceableState *)
(* wraps is an object made by seamless-immutable or a plain object.        *)
(***************************************************************************)
EXTENDS Integers, Sequences, FiniteSets, TLC

\* ------------------------------------------------------------- bounds
\* Number of handlers registered, over all action identities.
MaxHandlers == 2
\* Number of selector subscriptions created on the state stream.
MaxSubs == 2
\* Number of handler invocations explored, over all dispatches (a dispatch without
\* handlers counts as one).
MaxInvocations == 2
\* Number of handler registrations, selector subscriptions and handler invocations
\* explored together where consumers are followed (ConsumerSpec).
MaxEvents == 5

\* The action classes of the application (subclasses of Action).
ActionTypes == {"A", "B"}

\* ------------------------------------------------------------- values
\* A JavaScript value of the state tree: a number, a nested mapping or undefined.
Num(n) == [t |-> "num", n |-> n]
Obj(m) == [t |-> "obj", m |-> m]
Undef == [t |-> "undef"]
IsObj(v) == v.t = "obj"

\* The mapping {} : no keys.
EmptyMap == [k \in {} |-> Undef]

\* A state object: a mapping with the identity of the object that holds it.
\* Two objects with the same id are the same object (===); two objects with equal
\* val are structurally equal.
StateObj(id, val) == [id |-> id, val |-> val]

\* A state object that is a plain JavaScript object, not one made by
\* seamless-immutable: it has no merge method.
PlainObj(id, val) == [id |-> id, val |-> val, plain |-> TRUE]
IsPlain(st) == "plain" \in DOMAIN st

\* 'undefined' where a state object is expected (previousState before the first
\* notification).
NoState == [id |-> -1, val |-> EmptyMap, none |-> TRUE]

\* A projected value handed to a consumer. Primitives and undefined have no
\* identity of their own (id -1): === on them compares the value.
Proj(id, v) == [id |-> id, v |-> v]
UndefProj == Proj(-1, Undef)

\* ------------------------------------------------- seamless-immutable merge
\* Immutable merge with {deep: true}: keys of 'other' are written over 'cur'; where
\* both sides hold a mapping the two are merged recursively; keys absent from
\* 'other' are kept.
RECURSIVE deepMerge(_, _)
deepMerge(cur, other) ==
    [k \in (DOMAIN cur) \cup (DOMAIN other) |->
        IF k \notin DOMAIN other THEN cur[k]
        ELSE IF k \in DOMAIN cur /\ IsObj(cur[k]) /\ IsObj(other[k])
             THEN Obj(deepMerge(cur[k].m, other[k].m))
             ELSE other[k]]

\* ------------------------------------------------------------ handler results
Merge(p) == [kind |-> "merge", p |-> p]
Inc == [kind |-> "inc"]
Replace(r) == [kind |-> "replace", r |-> r]
ReplacePlain(r) == [kind |-> "replace", r |-> r, plain |-> TRUE]
Undefined == [kind |-> "undefined"]
ReplaceUndefined == [kind |-> "replaceUndefined"]
Error == [kind |-> "error"]
Async == [kind |-> "async"]
Throw == [kind |-> "throw"]

\* Partial states handlers return for merging.
Partials == { ("b" :> Obj("c" :> Num(1))) }

\* Full states handlers wrap in a ReplaceableState: as an object made by
\* seamless-immutable (Replace) or as a plain object (ReplacePlain).
Replacements == { ("x" :> Num(1)) }

\* What a handler's Observable delivers: one value, or an error.
Results ==
    { Merge(p) : p \in Partials } \cup { Replace(r) : r \in Replacements }
        \cup { ReplacePlain(r) : r \in Replacements }
        \cup { Inc, Undefined, ReplaceUndefined, Error }

\* The values a handler's Observable delivers while the handler is still being
\* subscribed to inside dispatch() (Observable.of(value)).
SyncResults == { Inc, Undefined } \cup { Replace(r) : r \in Replacements }

\* What a handler does when it is invoked: throw (or return no Observable), return
\* an Observable that delivers at once, or one that delivers later.
Outcomes == SyncResults \cup { Async, Throw }

\* The partial state a merging handler delivers; Inc is a counter handler,
\* {count: state.count + 1} computed from the state it was invoked with.
PartialOf(r, seenVal) ==
    IF r.kind = "inc"
    THEN ("count" :> Num((IF "count" \in DOMAIN seenVal THEN seenVal["count"].n ELSE 0) + 1))
    ELSE r.p

\* Whether a result is a defined value once mapped by 'merge or replace state'.
IsDefined(r) == r.kind \in {"merge", "inc", "replace"}

\* ------------------------------------------------------------ StateStream.select
\* The selector functions consumers subscribe with. "none" is a missing selector
\* (select() then hands the state itself on), "count" is s => s.count and "b.c" is
\* s => s.b.c, which throws a TypeError while the state has no key b.
Selectors == {"none", "count", "b.c"}

\* selector(state): the value it returns, or that it threw.
SelectorCall(selector, val) ==
    IF selector = "count"
    THEN [threw |-> FALSE,
          v |-> IF "count" \in DOMAIN val THEN Proj(-1, val["count"]) ELSE UndefProj]
    ELSE IF "b" \notin DOMAIN val
         THEN [threw |-> TRUE, v |-> UndefProj]
         ELSE [threw |-> FALSE,
               v |-> IF IsObj(val["b"]) /\ "c" \in DOMAIN val["b"].m
                     THEN Proj(-1, val["b"].m["c"])
                     ELSE UndefProj]

\* select() without its try/catch: the error of a selector comes out of it.
selectUnguarded(st, selector) ==
    IF st = NoState THEN UndefProj
    ELSE IF selector = "none" THEN Proj(st.id, Obj(st.val))
    ELSE LET r == SelectorCall(selector, st.val)
         IN  IF r.threw THEN [threw |-> TRUE] ELSE r.v

\* function select(state, selector)
select(st, selector) ==
    IF st = NoState THEN UndefProj
    ELSE IF selector = "none" THEN Proj(st.id, Obj(st.val))
    ELSE LET r == SelectorCall(selector, st.val)
         IN  IF r.threw THEN UndefProj ELSE r.v

\* A change test that never finds a change.
NeverChanged(selection, previous) == FALSE

\* The change test of a selection: selection !== select(previousState, selector).
Changed(selection, previous) == selection # previous

\* A 'next' callback that also invokes the consumer with whatever the first value
\* it observes projects to.
SelectionNextFirst(u, st) ==
    LET selection == select(st, u.selector)
    IN  IF u.log = <<>> \/ Changed(selection, select(u.previousState, u.selector))
        THEN [u EXCEPT !.previousState = st, !.log = Append(@, selection)]
        ELSE u

\* The 'next' callback of a selector subscription u on a value st of the stream.
SelectionNext(u, st) ==
    LET selection == select(st, u.selector)
    IN  IF Changed(selection, select(u.previousState, u.selector))
        THEN [u EXCEPT !.previousState = st, !.log = Append(@, selection)]
        ELSE u

\* The engine's globals a pipeline step reads and writes.
Globals(st, stream, sels) == [state |-> st, stateStream |-> stream, selections |-> sels]

\* A stream that goes on notifying a subscription after it was unsubscribed.
StreamNextAll(g, value) ==
    [g EXCEPT !.stateStream = value,
              !.selections = [i \in DOMAIN g.selections |->
                                 SelectionNext(g.selections[i], value)]]

\* stateStream.next(value): the BehaviorSubject holds the value and hands it to every
\* subscription that is still subscribed, in subscription order.
StreamNext(g, value) ==
    [g EXCEPT !.stateStream = value,
              !.selections = [i \in DOMAIN g.selections |->
                                 IF g.selections[i].active
                                 THEN SelectionNext(g.selections[i], value)
                                 ELSE g.selections[i]]]

\* The identity of a state object created now: distinct from every object the
\* engine or a subscription still holds.
FreshId(g) ==
    LET used == {g.state.id, g.stateStream.id}
                    \cup {g.selections[i].previousState.id : i \in DOMAIN g.selections}
    IN  CHOOSE n \in 0..(Len(g.selections) + 2) :
            n \notin used /\ \A m \in 0..(n - 1) : m \in used

\* An identity getter that takes every action for one of a class not seen yet.
identityAlwaysNew(type, table) == [id |-> Len(table), table |-> Append(table, type)]

\* ------------------------------------------------------------ Action.identity
\* get identity(): the index of the action's class in Reflux.actionIdentities, the
\* class being pushed first when it is not there yet. The result is the identity
\* ("c" + id, here the number id) and the table as the getter leaves it.
identity(type, table) ==
    IF \E i \in DOMAIN table : table[i] = type
    THEN [id |-> (CHOOSE i \in DOMAIN table : table[i] = type) - 1, table |-> table]
    ELSE [id |-> Len(table), table |-> Append(table, type)]

\* ------------------------------------------------------------ Action.dispatch
\* A merge into the state the handler was invoked with instead of the state held
\* when its value arrives.
MergeOrReplaceStale(g, r, seenVal) ==
    IF r.kind = "replace"
    THEN [g |-> [g EXCEPT !.state = IF "plain" \in DOMAIN r
                                    THEN PlainObj(FreshId(g), r.r)
                                    ELSE StateObj(FreshId(g), r.r)],
          defined |-> TRUE, threw |-> FALSE]
    ELSE IF r.kind \in {"merge", "inc"}
    THEN IF IsPlain(g.state)
         THEN [g |-> g, defined |-> FALSE, threw |-> TRUE]
         ELSE LET merged == deepMerge(seenVal, PartialOf(r, seenVal))
              IN  [g |-> [g EXCEPT !.state = StateObj(FreshId(g), merged)],
                   defined |-> TRUE, threw |-> FALSE]
    ELSE [g |-> g, defined |-> FALSE, threw |-> FALSE]

\* 'merge or replace state': the first map() of the pipeline, on the value r of the
\* handler that was invoked with the state value seenVal. 'defined' tells whether
\* the value the map hands on is defined. The wrapped state of a ReplaceableState
\* becomes Reflux.state as it is; Reflux.state.merge(...) is a TypeError when
\* Reflux.state is a plain object ('threw').
MergeOrReplace(g, r, seenVal) ==
    IF r.kind = "replace"
    THEN [g |-> [g EXCEPT !.state = IF "plain" \in DOMAIN r
                                    THEN PlainObj(FreshId(g), r.r)
                                    ELSE StateObj(FreshId(g), r.r)],
          defined |-> TRUE, threw |-> FALSE]
    ELSE IF r.kind = "replaceUndefined"
    THEN [g |-> g, defined |-> FALSE, threw |-> FALSE]
    ELSE IF r.kind \in {"merge", "inc"}
    THEN IF IsPlain(g.state)
         THEN [g |-> g, defined |-> FALSE, threw |-> TRUE]
         ELSE LET merged == deepMerge(g.state.val, PartialOf(r, seenVal))
              IN  [g |-> [g EXCEPT !.state = IF merged = g.state.val
                                             THEN g.state
                                             ELSE StateObj(FreshId(g), merged)],
                   defined |-> TRUE, threw |-> FALSE]
    ELSE [g |-> g, defined |-> FALSE, threw |-> FALSE]

\* skipWhile letting the values through one value early.
SkipPredicateEarly(i, len) == i + 2 < len

\* The predicate of skipWhile, on the index i of a value and the length the
\* handler list of the action's identity has when the value arrives.
SkipPredicate(i, len) == i + 1 < len

\* The second map() pushing the state whatever the value is.
PushNextAlways(defined) == TRUE

\* The second map() pushing nothing.
PushNextNever(defined) == FALSE

\* The test of the second map(): push the state to the stream or not.
PushNext(defined) == defined

\* How the promise of a dispatch ends once one of its handlers has failed: catch()
\* turns the error into an empty Observable, which completes.
AfterError == "resolved"

\* dispatch() rejecting the promise when it finds no handler.
NoSubscriptionsRejected == "rejected"

\* How the promise of a dispatch without handlers ends.
NoSubscriptions == "resolved"

\* The result a handler delivered, with the partial state an Inc handler computed.
Delivered(r, seenVal) == IF r.kind = "inc" THEN Merge(PartialOf(r, seenVal)) ELSE r

\* A value r of handler k of dispatch d goes down the pipeline: map (merge or
\* replace), skipWhile, map (push to the stream), and the completion of flatMap when
\* the handler list has been walked (outerDone) and no handler is pending. len is
\* the current length of the handler list.
PassValue(g, d, k, r, len, outerDone) ==
    LET m == MergeOrReplace(g, r, d.seen[k])
        skipping == IF d.skipping THEN SkipPredicate(d.index, len) ELSE FALSE
        index == IF d.skipping THEN d.index + 1 ELSE d.index
        push == ~skipping /\ PushNext(m.defined)
        g2 == IF push THEN StreamNext(m.g, m.g.state) ELSE m.g
        pending == d.pending \ {k}
        done == outerDone /\ pending = {}
    IN  [g |-> g2,
         d |-> [d EXCEPT !.pending = pending,
                         !.results = @ @@ (k :> Delivered(r, d.seen[k])),
                         !.arrived = Append(@, k),
                         !.index = index,
                         !.skipping = skipping,
                         !.pubs = IF push THEN Append(@, g2.state.val) ELSE @,
                         !.status = IF done THEN "resolved" ELSE @,
                         !.post = IF done THEN g2.state.val ELSE @]]

\* An error that also ends the state stream: its subscriptions are torn down.
OnErrorTearsDown(g, d, cause) ==
    [g |-> [g EXCEPT !.selections = [i \in DOMAIN g.selections |->
                                        [g.selections[i] EXCEPT !.active = FALSE]]],
     d |-> [d EXCEPT !.pending = {},
                     !.failure = cause,
                     !.status = AfterError,
                     !.post = g.state.val]]

\* An error in the pipeline of dispatch d (cause "threw": a handler threw or
\* returned no Observable; cause "errored": the Observable of a handler failed;
\* cause "mergeThrew": the merge of a value threw): flatMap drops the handlers
\* still pending, the operators pass the error on, catch() replaces it.
OnError(g, d, cause) ==
    [g |-> g,
     d |-> [d EXCEPT !.pending = {},
                     !.failure = cause,
                     !.status = AfterError,
                     !.post = g.state.val]]

\* A value r of handler k of dispatch d arrives: it goes down the pipeline, unless
\* the merge throws, which fails the pipeline like an error of a handler.
OnValue(g, d, k, r, len, outerDone) ==
    IF MergeOrReplace(g, r, d.seen[k]).threw
    THEN OnError(g, [d EXCEPT !.results = @ @@ (k :> Delivered(r, d.seen[k])),
                              !.arrived = Append(@, k)], "mergeThrew")
    ELSE PassValue(g, d, k, r, len, outerDone)

\* Observable.from(subscriptions).flatMap(...): the handlers k, k+1, .. of the list
\* are invoked in turn with Reflux.state as it is then, unless the pipeline has
\* failed. plan[k] is what handler k does.
RECURSIVE InvokeFrom(_, _, _, _, _)
InvokeFrom(g, d, k, plan, len) ==
    IF k > d.n \/ d.status # "active" THEN [g |-> g, d |-> d]
    ELSE LET d1 == [d EXCEPT !.seen = Append(@, g.state.val)]
             d2 == [d1 EXCEPT !.pending = @ \cup {k}]
             r == IF plan[k].kind = "throw" THEN OnError(g, d1, "threw")
                  ELSE IF plan[k].kind = "async" THEN [g |-> g, d |-> d2]
                  ELSE OnValue(g, d2, k, plan[k], len, FALSE)
         IN  InvokeFrom(r.g, r.d, k + 1, plan, len)

\* The handler list walked, flatMap completes when no handler is pending.
OuterComplete(g, d) ==
    IF d.status = "active" /\ d.pending = {}
    THEN [d EXCEPT !.status = "resolved", !.post = g.state.val]
    ELSE d

\* The record of a dispatch() call.
NewDispatch(type, id, n, st, solo) ==
    [type |-> type, id |-> id, n |-> n, pre |-> st.val, seen |-> <<>>,
     pending |-> {}, results |-> <<>>, arrived |-> <<>>, index |-> 0,
     skipping |-> TRUE, pubs |-> <<>>, status |-> "active", failure |-> "none",
     post |-> st.val, solo |-> solo]

VARIABLES
    state,            \* Reflux.state
    stateStream,      \* the value held by Reflux.stateStream (a BehaviorSubject)
    lastAction,       \* Reflux.lastAction: the class of the last action dispatched
    subscriptions,    \* Reflux.subscriptions: identity -> list of handlers
    actionIdentities, \* Reflux.actionIdentities: list of action classes
    selections,       \* subscriptions made through StateStream.select, in order
    dispatches        \* one record per dispatch() call: its pipeline and promise

vars == <<state, stateStream, lastAction, subscriptions, actionIdentities,
          selections, dispatches>>

Init ==
    /\ state = StateObj(0, EmptyMap)
    /\ stateStream = StateObj(0, EmptyMap)
    /\ lastAction = "none"
    /\ subscriptions = <<>>
    /\ actionIdentities = <<>>
    /\ selections = <<>>
    /\ dispatches = <<>>

InFlight(d) == d.status = "active"

\* The number of handlers the dispatches up to the i-th were to invoke, a dispatch
\* without handlers counting as one.
Cost(n) == IF n = 0 THEN 1 ELSE n
RECURSIVE Invocations(_)
Invocations(i) == IF i = 0 THEN 0 ELSE Cost(dispatches[i].n) + Invocations(i - 1)

\* The number of handlers registered, over all identities.
RECURSIVE SumLen(_)
SumLen(ids) ==
    IF ids = {} THEN 0
    ELSE LET i == CHOOSE j \in ids : TRUE
         IN  Len(subscriptions[i]) + SumLen(ids \ {i})
Registered == SumLen(DOMAIN subscriptions)

\* new T().subscribe(actionObserver, context)
ActionSubscribe(type) ==
    LET r == identity(type, actionIdentities)
        list == IF r.id \in DOMAIN subscriptions THEN subscriptions[r.id] ELSE <<>>
        handler == [type |-> type, k |-> Len(list) + 1]
    IN  /\ Registered < MaxHandlers
        /\ actionIdentities' = r.table
        /\ subscriptions' = (r.id :> Append(list, handler)) @@ subscriptions
        /\ UNCHANGED <<state, stateStream, lastAction, selections, dispatches>>

\* new T().dispatch(), up to the return of the promise
Dispatch(type) ==
    LET r == identity(type, actionIdentities)
        list == IF r.id \in DOMAIN subscriptions THEN subscriptions[r.id] ELSE <<>>
        g == Globals(state, stateStream, selections)
        solo == \A i \in DOMAIN dispatches : ~InFlight(dispatches[i])
        d0 == NewDispatch(type, r.id, Len(list), state, solo)
        others == [i \in DOMAIN dispatches |->
                     IF InFlight(dispatches[i])
                     THEN [dispatches[i] EXCEPT !.solo = FALSE]
                     ELSE dispatches[i]]
    IN  /\ Invocations(Len(dispatches)) + Cost(Len(list)) <= MaxInvocations
        /\ lastAction' = type
        /\ actionIdentities' = r.table
        /\ UNCHANGED subscriptions
        /\ IF Len(list) = 0
           THEN /\ dispatches' = Append(others, [d0 EXCEPT !.status = NoSubscriptions])
                /\ UNCHANGED <<state, stateStream, selections>>
           ELSE \E plan \in [1..Len(list) -> Outcomes] :
                  LET run == InvokeFrom(g, d0, 1, plan, Len(list))
                  IN  /\ state' = run.g.state
                      /\ stateStream' = run.g.stateStream
                      /\ selections' = run.g.selections
                      /\ dispatches' = Append(others, OuterComplete(run.g, run.d))

\* The Observable of handler k of dispatch i delivers its result r.
Deliver(i, k, r) ==
    LET d == dispatches[i]
        g == Globals(state, stateStream, selections)
        run == IF r.kind = "error" THEN OnError(g, d, "errored")
               ELSE OnValue(g, d, k, r, Len(subscriptions[d.id]), TRUE)
    IN  /\ InFlight(d)
        /\ k \in d.pending
        /\ state' = run.g.state
        /\ stateStream' = run.g.stateStream
        /\ selections' = run.g.selections
        /\ dispatches' = [dispatches EXCEPT ![i] = run.d]
        /\ UNCHANGED <<lastAction, subscriptions, actionIdentities>>

\* stateStream.select(selector).subscribe(consumer): the BehaviorSubject hands its
\* current value to the new subscription at once.
SelectSubscribe(selector) ==
    LET u == [selector |-> selector, active |-> TRUE, previousState |-> NoState,
              log |-> <<>>]
    IN  /\ Len(selections) < MaxSubs
        /\ selections' = Append(selections, SelectionNext(u, stateStream))
        /\ UNCHANGED <<state, stateStream, lastAction, subscriptions,
                       actionIdentities, dispatches>>

\* subscription.unsubscribe()
Unsubscribe(i) ==
    /\ selections' = [selections EXCEPT ![i].active = FALSE]
    /\ UNCHANGED <<state, stateStream, lastAction, subscriptions,
                   actionIdentities, dispatches>>

\* The handler registry and the dispatcher.
DispatchNext ==
    \/ \E type \in ActionTypes : ActionSubscribe(type)
    \/ \E type \in ActionTypes : Dispatch(type)
    \/ \E i \in DOMAIN dispatches : \E k \in 1..MaxHandlers : \E r \in Results :
          Deliver(i, k, r)

\* The whole engine: the dispatcher and the consumers of the state stream.
Next ==
    \/ \E type \in ActionTypes : ActionSubscribe(type)
    \/ \E type \in ActionTypes : Dispatch(type)
    \/ \E i \in DOMAIN dispatches : \E k \in 1..MaxHandlers : \E r \in Results :
          Deliver(i, k, r)
    \/ \E selector \in Selectors : SelectSubscribe(selector)
    \/ \E i \in DOMAIN selections : Unsubscribe(i)

Spec == Init /\ [][Next]_vars

\* The engine while nothing is subscribed to the state stream.
DispatchSpec == Init /\ [][DispatchNext]_vars

\* The registrations, subscriptions and handler invocations made so far.
Events == Len(selections) + Registered + Invocations(Len(dispatches))

\* The number of handlers a dispatch of an action of the class would invoke.
HandlerCount(type) ==
    LET r == identity(type, actionIdentities)
    IN  IF r.id \in DOMAIN subscriptions THEN Len(subscriptions[r.id]) ELSE 0

\* The engine as consumers see it: one action class, its handlers, and consumers
\* that subscribe with the selectors s => s.count and s => s.b.c before the first
\* dispatch, as the bindings made by BindData do.
ConsumerNext ==
    \/ Events < MaxEvents /\ ActionSubscribe("A")
    \/ Events + Cost(HandlerCount("A")) <= MaxEvents /\ Dispatch("A")
    \/ \E i \in DOMAIN dispatches : \E k \in 1..MaxHandlers : \E r \in Results :
          Deliver(i, k, r)
    \/ \E selector \in {"count", "b.c"} :
          dispatches = <<>> /\ Events < MaxEvents /\ SelectSubscribe(selector)
    \/ \E i \in DOMAIN selections : Unsubscribe(i)

ConsumerSpec == Init /\ [][ConsumerNext]_vars

\* The engine with consumers that subscribe at any time, with any of the selectors,
\* and stay subscribed.
SubscribeNext ==
    \/ Events < MaxEvents /\ ActionSubscribe("A")
    \/ Events + Cost(HandlerCount("A")) <= MaxEvents /\ Dispatch("A")
    \/ \E i \in DOMAIN dispatches : \E k \in 1..MaxHandlers : \E r \in Results :
          Deliver(i, k, r)
    \/ \E selector \in Selectors : Events < MaxEvents /\ SelectSubscribe(selector)

SubscribeSpec == Init /\ [][SubscribeNext]_vars

\* ------------------------------------------------------------ properties
Settled(d) == d.status # "active"

\* The pipeline of the dispatch failed.
Failed(d) == d.failure # "none"

\* Every handler of the dispatch has delivered a value.
AllDelivered(d) == DOMAIN d.results = 1..d.n

\* Some handler of the dispatch has delivered a defined value.
SomeDefined(d) == \E k \in DOMAIN d.results : IsDefined(d.results[k])

\* The value of the handler of the dispatch that delivered last is defined.
LastDefined(d) == d.arrived # <<>> /\ IsDefined(d.results[d.arrived[Len(d.arrived)]])

\* The state value the results of the first k handlers produce from val when they
\* are applied in the order the handlers were registered in.
RECURSIVE InRegistrationOrder(_, _, _)
InRegistrationOrder(val, results, k) ==
    IF k = 0 THEN val
    ELSE LET v == InRegistrationOrder(val, results, k - 1)
             r == results[k]
         IN  IF r.kind = "replace" THEN r.r
             ELSE IF r.kind = "merge" THEN deepMerge(v, r.p)
             ELSE v

\* C1: for a dispatch with two or more handlers that no other dispatch overlaps, in
\* which one handler fails while another delivers a defined result, the global state
\* once the dispatch has finished equals the global state before the dispatch.
NoPartialCommitOnFailure ==
    \A i \in DOMAIN dispatches :
        LET d == dispatches[i]
        IN  (Settled(d) /\ d.solo /\ d.n >= 2 /\ d.failure = "errored" /\ SomeDefined(d))
                => d.post = d.pre

\* C2: a dispatch in which a handler failed (its Observable failed, it threw, or it
\* returned no Observable) ends with its promise rejected, never resolved.
FailedDispatchRejects ==
    \A i \in DOMAIN dispatches :
        dispatches[i].failure \in {"threw", "errored"}
            => dispatches[i].status = "rejected"

\* C3: the global state after a dispatch that no other dispatch overlaps and in
\* which no handler failed is the state obtained by applying the handlers' results
\* in registration order, whatever order the results arrived in.
ResultsAppliedInRegistrationOrder ==
    \A i \in DOMAIN dispatches :
        LET d == dispatches[i]
        IN  (Settled(d) /\ d.solo /\ ~Failed(d))
                => d.post = InRegistrationOrder(d.pre, d.results, d.n)

\* C4: every handler of a dispatch is invoked with the global state as it was when
\* dispatch() was called.
HandlersSeeDispatchState ==
    \A i \in DOMAIN dispatches :
        \A k \in DOMAIN dispatches[i].seen :
            dispatches[i].seen[k] = dispatches[i].pre

\* C5: a dispatch has pushed a value to the state stream only if every one of its
\* handlers has delivered its result and none is pending.
JoinBeforePublish ==
    \A i \in DOMAIN dispatches :
        LET d == dispatches[i]
        IN  d.pubs # <<>> => (d.pending = {} /\ AllDelivered(d))

\* C5 witness: a dispatch with two handlers has pushed a value to the stream.
JoinBeforePublishWitness ==
    \E i \in DOMAIN dispatches : dispatches[i].n >= 2 /\ dispatches[i].pubs # <<>>

\* C6: a dispatch in which no handler failed and some handler delivered a defined
\* result has pushed exactly one value to the state stream once it has finished, and
\* that value is the state the dispatch left.
OnePublishPerEffectiveDispatch ==
    \A i \in DOMAIN dispatches :
        LET d == dispatches[i]
        IN  (Settled(d) /\ ~Failed(d) /\ SomeDefined(d))
                => (Len(d.pubs) = 1 /\ d.pubs[1] = d.post)

\* C7: once every handler of a dispatch has delivered undefined or a
\* ReplaceableState of undefined, the dispatch has pushed nothing to the state
\* stream, its promise is resolved, and (no other dispatch overlapping it) the global
\* state is the one before the dispatch.
NoResultNoPublish ==
    \A i \in DOMAIN dispatches :
        LET d == dispatches[i]
        IN  (d.n >= 1 /\ AllDelivered(d) /\ ~SomeDefined(d))
                => /\ d.pubs = <<>>
                   /\ d.status = "resolved"
                   /\ d.solo => d.post = d.pre

\* C7 witness: a dispatch whose two handlers delivered undefined and a
\* ReplaceableState of undefined has finished.
NoResultNoPublishWitness ==
    \E i \in DOMAIN dispatches :
        LET d == dispatches[i]
        IN  /\ d.n = 2 /\ AllDelivered(d) /\ Settled(d)
            /\ {d.results[1], d.results[2]} = {Undefined, ReplaceUndefined}

\* A step that is a dispatch() of an action whose identity has no handler.
DispatchWithoutHandlers ==
    /\ Len(dispatches') = Len(dispatches) + 1
    /\ dispatches'[Len(dispatches')].n = 0

\* C8 as stated: a dispatch of an action whose identity has no handler changes
\* nothing but the last action.
NoHandlerDispatchOnlySetsLastAction ==
    [][DispatchWithoutHandlers =>
          /\ lastAction' = dispatches'[Len(dispatches')].type
          /\ UNCHANGED <<state, stateStream, subscriptions, actionIdentities,
                         selections>>]_vars

\* C8 amended: a dispatch of an action whose identity has no handler resolves,
\* invokes no handler, pushes nothing to the stream and leaves the global state, the
\* stream, the handler registry and the selections as they are; it records the
\* action as the last action and, when the action's class has no identity yet,
\* appends the class to the identity table.
NoHandlerDispatchIsNoOp ==
    [][DispatchWithoutHandlers =>
          LET d == dispatches'[Len(dispatches')]
          IN  /\ d.status = "resolved"
              /\ d.seen = <<>> /\ d.pubs = <<>>
              /\ lastAction' = d.type
              /\ actionIdentities' =
                    IF \E j \in DOMAIN actionIdentities : actionIdentities[j] = d.type
                    THEN actionIdentities
                    ELSE Append(actionIdentities, d.type)
              /\ UNCHANGED <<state, stateStream, subscriptions, selections>>]_vars

\* C8 witness: an action whose identity has no handler has been dispatched after
\* the state was changed by an earlier dispatch.
NoHandlerDispatchWitness ==
    \E i \in DOMAIN dispatches :
        /\ dispatches[i].n = 0
        /\ dispatches[i].status = "resolved"
        /\ dispatches[i].pre # EmptyMap

\* C9: a dispatch in which no handler failed pushes to the state stream exactly as
\* its own handlers decide (once, when the result that arrived last is defined, and
\* not at all otherwise), whatever is registered while it is in flight.
LateRegistrationLeavesDispatchAlone ==
    \A i \in DOMAIN dispatches :
        LET d == dispatches[i]
        IN  (Settled(d) /\ ~Failed(d) /\ d.n >= 1)
                => /\ Len(d.seen) = d.n
                   /\ Len(d.pubs) = (IF LastDefined(d) THEN 1 ELSE 0)

\* The same for the dispatches during which nothing was registered for their
\* identity: the handler list still has the length it had at dispatch().
PublishesWhenLastResultDefined ==
    \A i \in DOMAIN dispatches :
        LET d == dispatches[i]
        IN  (Settled(d) /\ ~Failed(d) /\ d.n >= 1 /\ Len(subscriptions[d.id]) = d.n)
                => Len(d.pubs) = (IF LastDefined(d) THEN 1 ELSE 0)

\* C10: no consumer of a selection is invoked twice in a row with equal projected
\* values.
DistinctConsecutiveNotifications ==
    \A i \in DOMAIN selections :
        \A j \in 1..(Len(selections[i].log) - 1) :
            selections[i].log[j].v # selections[i].log[j + 1].v

\* What the code does keep: two notifications in a row never carry the same value
\* under === (the same primitive, or the same object).
IdenticalNeverRedelivered ==
    \A i \in DOMAIN selections :
        \A j \in 1..(Len(selections[i].log) - 1) :
            selections[i].log[j] # selections[i].log[j + 1]

\* A step that is a subscription through stateStream.select(selector).
SelectSubscribes == Len(selections') = Len(selections) + 1

\* C11 as stated: subscribing a consumer through a selector invokes the consumer
\* with nothing: the subscription comes out of the subscribe call with no
\* notification delivered, whatever the current state is.
NoNotificationAtSubscribe ==
    [][SelectSubscribes => selections'[Len(selections')].log = <<>>]_vars

\* C11 amended: subscribing a consumer through a selector invokes the consumer,
\* during the subscribe call, with the projection of the current state when that
\* projection is defined, and with nothing when it is undefined.
NotifiedAtSubscribeIffDefined ==
    [][SelectSubscribes =>
          LET u == selections'[Len(selections')]
              selection == select(stateStream, u.selector)
          IN  u.log = IF selection = UndefProj THEN <<>> ELSE <<selection>>]_vars

\* C11 witness: a consumer of s => s.count that subscribed when the count was 2
\* has been invoked with 2 and nothing else.
NotifiedAtSubscribeWitness ==
    \E i \in DOMAIN selections :
        /\ selections[i].selector = "count"
        /\ selections[i].log = <<Proj(-1, Num(2))>>

\* A step in which a value is pushed to the state stream.
Published ==
    \E i \in DOMAIN dispatches' :
        Len(dispatches'[i].pubs) >
            (IF i \in DOMAIN dispatches THEN Len(dispatches[i].pubs) ELSE 0)

\* Subscription u has become v by observing the state st: v holds the projection
\* of st as its last one, the consumer having been invoked with it or not at all.
ServedWith(u, v, st) ==
    /\ select(v.previousState, v.selector) = select(st, v.selector)
    /\ v.log \in {u.log, Append(u.log, select(st, v.selector))}
    /\ v.selector = u.selector /\ v.active = u.active

\* C12: no step invokes the consumer of a subscription that was unsubscribed; a
\* push to the stream reaches every subscription still subscribed, each with its
\* own change test; unsubscribing a subscription that is unsubscribed already
\* changes nothing.
UnsubscribeStopsNotifications ==
    [][/\ \A i \in DOMAIN selections :
            ~selections[i].active => selections'[i] = selections[i]
       /\ Published =>
            \A i \in DOMAIN selections :
                selections[i].active =>
                    ServedWith(selections[i], selections'[i], stateStream')
       /\ \A i \in DOMAIN selections :
            (~selections[i].active /\ Unsubscribe(i)) => UNCHANGED vars]_vars

\* C12 witness: the stream holds a state whose projection differs from the last
\* one an unsubscribed subscription was notified with, and a subscription with the
\* same selector that is still subscribed has been notified with this state.
UnsubscribeStopsNotificationsWitness ==
    \E i, j \in DOMAIN selections :
        /\ ~selections[i].active
        /\ Changed(select(stateStream, selections[i].selector),
                   select(selections[i].previousState, selections[i].selector))
        /\ selections[j].active
        /\ selections[j].selector = selections[i].selector
        /\ selections[j].previousState = stateStream
        /\ Len(selections[j].log) >= 2

\* The counter scenario: one handler is registered, for the action class of every
\* dispatch so far; every dispatch was made while no other was in flight and has
\* finished, its handler having delivered {count: state.count + 1}; subscription i
\* selects s => s.count and is still there (under ConsumerSpec it was made before
\* the first dispatch).
CounterScenario(i) ==
    /\ Registered = 1
    /\ selections[i].selector = "count"
    /\ selections[i].active
    /\ \A j \in DOMAIN dispatches :
          LET d == dispatches[j]
          IN  /\ d.n = 1 /\ d.solo /\ Settled(d) /\ ~Failed(d)
              /\ DOMAIN d.results = {1}
              /\ d.results[1] = Delivered(Inc, d.seen[1])

\* The numbers 1, 2, .., n as a consumer of s => s.count receives them.
Counting(n) == [j \in 1..n |-> Proj(-1, Num(j))]

\* C13: in the counter scenario with n dispatches the state is {count: n} and the
\* consumer has been invoked with exactly 1, 2, .., n in that order.
SequentialCounter ==
    \A i \in DOMAIN selections :
        (CounterScenario(i) /\ dispatches # <<>>)
            => /\ state.val = ("count" :> Num(Len(dispatches)))
               /\ selections[i].log = Counting(Len(dispatches))

\* C13 witness: the counter scenario after two dispatches.
SequentialCounterWitness ==
    \E i \in DOMAIN selections : CounterScenario(i) /\ Len(dispatches) = 2

\* The dispatches with a single handler whose value arrived, that no other
\* dispatch overlapped and that have finished.
SingleHandlerDone(d) == d.n = 1 /\ d.solo /\ Settled(d) /\ DOMAIN d.results = {1}

\* The state a single result makes of the state 'pre': the deep merge of a plain
\* result, the wrapped state of a ReplaceableState.
MergedOrReplaced(pre, r) ==
    IF r.kind = "merge" THEN deepMerge(pre, r.p)
    ELSE IF r.kind = "replace" THEN r.r
    ELSE pre

\* C14: a dispatch with a single handler leaves, whatever the state before it, the
\* deep merge of that state and the handler's plain result, or exactly the state the
\* handler wrapped in a ReplaceableState.
MergeVersusReplace ==
    \A i \in DOMAIN dispatches :
        LET d == dispatches[i]
        IN  (SingleHandlerDone(d) /\ IsDefined(d.results[1]))
                => d.post = MergedOrReplaced(d.pre, d.results[1])

\* What the code does keep: the same for the dispatches whose merge did not throw,
\* that is, whose state before was made by seamless-immutable.
MergeVersusReplaceOfImmutable ==
    \A i \in DOMAIN dispatches :
        LET d == dispatches[i]
        IN  (SingleHandlerDone(d) /\ IsDefined(d.results[1]) /\ ~Failed(d))
                => d.post = MergedOrReplaced(d.pre, d.results[1])

\* The identity an action of the class has now, or -1 while the class has none.
IdentityOf(type) ==
    IF \E j \in DOMAIN actionIdentities : actionIdentities[j] = type
    THEN (CHOOSE j \in DOMAIN actionIdentities : actionIdentities[j] = type) - 1
    ELSE -1

\* Every class has one place in the identity table, every dispatch so far was
\* routed to the handler list of the identity its class has now, and every
\* handler is in the list of the identity of the class it was registered for.
IdentitiesAgree ==
    /\ \A j, k \in DOMAIN actionIdentities :
          actionIdentities[j] = actionIdentities[k] => j = k
    /\ \A i \in DOMAIN dispatches : IdentityOf(dispatches[i].type) = dispatches[i].id
    /\ \A id \in DOMAIN subscriptions :
          \A k \in DOMAIN subscriptions[id] :
              IdentityOf(subscriptions[id][k].type) = id
    /\ \A i \in DOMAIN dispatches :
          dispatches[i].n > 0 => dispatches[i].n <= Len(subscriptions[dispatches[i].id])

\* A step keeps every entry of the identity table where it is.
IdentitiesKept ==
    /\ Len(actionIdentities') >= Len(actionIdentities)
    /\ \A j \in DOMAIN actionIdentities : actionIdentities'[j] = actionIdentities[j]

\* C15: the identity table never shrinks and no entry of it ever changes; a class
\* has one identity and two classes never share one; every instance of a class is
\* routed to the same handler list.
IdentityStability == []IdentitiesAgree /\ [][IdentitiesKept]_vars

\* C15 witness: two classes have an identity, and two instances of the class with
\* the second identity have been dispatched to its handler.
IdentityStabilityWitness ==
    /\ Len(actionIdentities) = 2
    /\ \E i, j \in DOMAIN dispatches :
          /\ i < j
          /\ dispatches[i].type = dispatches[j].type
          /\ dispatches[i].id = 1 /\ dispatches[j].id = 1
          /\ dispatches[i].n = 1 /\ dispatches[j].n = 1

\* A step in which a handler of dispatch i fails.
HandlerFails(i) ==
    /\ dispatches'[i].failure \in {"threw", "errored"}
    /\ i \in DOMAIN dispatches => dispatches[i].failure = "none"

\* A handler of some dispatch has failed.
SomeHandlerFailed ==
    \E i \in DOMAIN dispatches : dispatches[i].failure \in {"threw", "errored"}

\* C16: a step in which a handler of a dispatch fails leaves the state stream and
\* its subscriptions as they are and every other dispatch in flight with the
\* handlers it is waiting for; and once a handler has failed, a push to the stream
\* still reaches every subscription that is subscribed.
FailureLocality ==
    [][/\ \A i \in DOMAIN dispatches' :
            HandlerFails(i) =>
                /\ stateStream' = stateStream
                /\ selections' = selections
                /\ \A j \in DOMAIN dispatches :
                      j # i => /\ dispatches'[j].status = dispatches[j].status
                               /\ dispatches'[j].pending = dispatches[j].pending
                               /\ dispatches'[j].failure = dispatches[j].failure
       /\ (SomeHandlerFailed /\ Published) =>
            \A i \in DOMAIN selections :
                selections[i].active =>
                    ServedWith(selections[i], selections'[i], stateStream')]_vars

\* C16 witness: of two dispatches in flight together the first failed while the
\* state was still empty; the second has then pushed a state to the stream, and a
\* subscription made before has been notified with it.
FailureLocalityWitness ==
    /\ Len(dispatches) = 2
    /\ dispatches[1].failure = "errored" /\ dispatches[1].post = EmptyMap
    /\ ~dispatches[1].solo /\ ~dispatches[2].solo
    /\ dispatches[2].status = "resolved" /\ dispatches[2].failure = "none"
    /\ dispatches[2].pubs # <<>> /\ dispatches[2].pubs[1] # EmptyMap
    /\ \E i \in DOMAIN selections :
          /\ selections[i].active
          /\ selections[i].log # <<>>
          /\ selections[i].previousState = stateStream

\* The selector of subscription u throws on the state st.
SelectorThrows(u, st) == u.selector # "none" /\ SelectorCall(u.selector, st.val).threw

\* Subscription u after a state whose projection is taken to be undefined: the
\* consumer is invoked with undefined when the last projection was defined.
AfterUndefined(u, st) ==
    IF u.log # <<>> /\ u.log[Len(u.log)] # UndefProj
    THEN [u EXCEPT !.previousState = st, !.log = Append(@, UndefProj)]
    ELSE u

\* Subscription u after a state st its selector returns a value for: the consumer
\* is invoked with the value when it is not the last projection.
AfterValue(u, st) ==
    LET v == SelectorCall(u.selector, st.val).v
        last == IF u.log = <<>> THEN UndefProj ELSE u.log[Len(u.log)]
    IN  IF v # last
        THEN [u EXCEPT !.previousState = st, !.log = Append(@, v)]
        ELSE u

\* The dispatch that pushes to the stream in this step does not fail.
PublisherUnharmed ==
    \A i \in DOMAIN dispatches' :
        Len(dispatches'[i].pubs) >
                (IF i \in DOMAIN dispatches THEN Len(dispatches[i].pubs) ELSE 0)
            => dispatches'[i].failure = "none"

\* C17: when a state is pushed to the stream, a subscription whose selector throws
\* on it takes its projection to be undefined, every other subscription is served
\* with the value its own selector returns, and the dispatch that pushed the state
\* does not fail.
SelectorFailureIsolation ==
    [][Published =>
          /\ PublisherUnharmed
          /\ \A i \in DOMAIN selections :
                selections[i].active =>
                    selections'[i] =
                        IF SelectorThrows(selections[i], stateStream')
                        THEN AfterUndefined(selections[i], stateStream')
                        ELSE AfterValue(selections[i], stateStream')]_vars

\* C17 witness: a dispatch has pushed a state on which the selector s => s.b.c of
\* one subscription throws, after that subscription had been notified with a
\* value; it has been notified with undefined, and a subscription to s => s.count
\* is still served.
SelectorFailureIsolationWitness ==
    \E i, j \in DOMAIN selections :
        /\ selections[i].selector = "b.c" /\ selections[i].active
        /\ SelectorThrows(selections[i], stateStream)
        /\ Len(selections[i].log) = 2
        /\ selections[i].log[2] = UndefProj
        /\ selections[i].previousState = stateStream
        /\ selections[j].selector = "count" /\ selections[j].active
        /\ \E k \in DOMAIN dispatches :
              /\ dispatches[k].status = "resolved" /\ dispatches[k].failure = "none"
              /\ dispatches[k].pubs = <<stateStream.val>>

\* C18 as stated: the first state pushed to the stream while a subscription is
\* there and has not been notified yet makes its consumer be invoked: the
\* subscription comes out of the step with one notification, the projection of that
\* state, and with that state as its previous one.
FirstObservationNotifies ==
    [][Published =>
          \A i \in DOMAIN selections :
              (selections[i].active /\ selections[i].log = <<>>)
                  => /\ selections'[i].log =
                            <<select(stateStream', selections[i].selector)>>
                     /\ selections'[i].previousState = stateStream']_vars

\* Subscription v is what a subscription not notified so far becomes by observing
\* the state st: notified with the projection of st, which it stores with st as the
\* previous state, when the projection is defined; not notified, and with nothing
\* stored, when it is undefined.
FirstServed(v, st) ==
    LET selection == select(st, v.selector)
    IN  IF selection = UndefProj
        THEN v.log = <<>> /\ v.previousState = NoState
        ELSE v.log = <<selection>> /\ v.previousState = st

\* C18 amended: a state observed by a subscription that has not been notified yet
\* (the current state at subscribe time, then every state pushed to the stream)
\* makes its consumer be invoked with the projection of that state, and that state
\* be stored as the previous one, when the projection is defined; when it is
\* undefined the consumer is not invoked and nothing is stored.
FirstNotificationIffDefined ==
    [][/\ SelectSubscribes => FirstServed(selections'[Len(selections')], stateStream)
       /\ Published =>
            \A i \in DOMAIN selections :
                (selections[i].active /\ selections[i].log = <<>>)
                    => FirstServed(selections'[i], stateStream')]_vars

\* C18 witness: a dispatch has pushed a state without count to the stream, and the
\* consumer of s => s.count, subscribed since before the dispatch, has not been
\* invoked.
FirstNotificationWitness ==
    /\ \E i \in DOMAIN selections :
          /\ selections[i].selector = "count"
          /\ selections[i].active
          /\ selections[i].log = <<>>
    /\ \E k \in DOMAIN dispatches : dispatches[k].pubs # <<>>

\* The values handlers have delivered so far, each with its dispatch and handler.
Arrivals ==
    { a \in (DOMAIN dispatches) \X (1..MaxHandlers) :
        a[2] \in DOMAIN dispatches[a[1]].results }

ResultOf(a) == dispatches[a[1]].results[a[2]]

\* Every dispatch has finished, none has failed, no handler has delivered a
\* ReplaceableState, and no two of the partial states delivered share a key.
DisjointMergesDone ==
    /\ \A i \in DOMAIN dispatches : Settled(dispatches[i]) /\ ~Failed(dispatches[i])
    /\ \A a \in Arrivals : ResultOf(a).kind \in {"merge", "undefined"}
    /\ \A a, b \in Arrivals :
          (a # b /\ ResultOf(a).kind = "merge" /\ ResultOf(b).kind = "merge")
              => (DOMAIN ResultOf(a).p) \cap (DOMAIN ResultOf(b).p) = {}

\* C19: when the dispatches, overlapping or not, have all finished with partial
\* states on disjoint keys and nothing else, the global state holds every one of
\* the partial states.
NoLostUpdate ==
    DisjointMergesDone =>
        \A a \in Arrivals :
            ResultOf(a).kind = "merge" =>
                \A key \in DOMAIN ResultOf(a).p :
                    /\ key \in DOMAIN state.val
                    /\ state.val[key] = ResultOf(a).p[key]

\* C19 witness: two dispatches were in flight together, one delivered a count and
\* the other the key b, and both have finished.
NoLostUpdateWitness ==
    /\ DisjointMergesDone
    /\ Len(dispatches) = 2
    /\ ~dispatches[1].solo /\ ~dispatches[2].solo
    /\ \E a, b \in Arrivals :
          /\ a[1] = 1 /\ b[1] = 2
          /\ ResultOf(a).kind = "merge" /\ ResultOf(b).kind = "merge"
          /\ DOMAIN ResultOf(a).p # DOMAIN ResultOf(b).p

\* While no dispatch is in flight the state stream holds the global state.
StreamHoldsState ==
    (\A i \in DOMAIN dispatches : Settled(dispatches[i])) => stateStream = state

\* The value a step pushes to the state stream is the global state the step leaves.
PushedIsHeld == Published => stateStream' = state'

\* C20: every value pushed to the state stream is the global state at that
\* moment, and whenever no dispatch is in flight the value the stream holds is the
\* global state.
PublishedAgreesWithHeld == []StreamHoldsState /\ [][PushedIsHeld]_vars

\* What the code does keep: the first half, every value pushed is the state held.
PushedAgreesWithHeld == [][PushedIsHeld]_vars

====
